---- MODULE Spec2Model ----
(***************************************************************************)
(* Model of three pieces of the dials sources:                             *)
(*   - clean_3d and sampling_volume_map          (fft3d.h)                 *)
(*   - FlatPanelDetector / MultiFlatPanelDetector (detector.h)             *)
(*                                                                         *)
(* double values are modelled as exact rationals <<num, den>>.  All the    *)
(* inputs enumerated below are dyadic (integers and halves), so that the   *)
(* IEEE double arithmetic of the program is exact on them and coincides    *)
(* with the rational arithmetic of the model.                              *)
(***************************************************************************)
EXTENDS Integers, Sequences, FiniteSets, TLC

(***************************************************************************)
(* Bounds of the model                                                     *)
(***************************************************************************)
MaxExtent == 2      \* largest extent of one axis of a clean_3d grid
MaxCells == 4       \* largest number of voxels of a clean_3d grid other than CubeShape
MaxPeaks == 2       \* largest n_peaks
MaxSrc == 2         \* largest number of point sources in a dirty_map
SvmMaxExtent == 3   \* largest extent of one axis of a sampling_volume_map grid
SvmMaxCells == 4    \* largest number of voxels of a sampling_volume_map grid
MaxRanges == 2      \* largest number of angle ranges
MaxAngle == 2       \* largest angle the rotation-angle solver returns
MaxPanels == 3      \* largest number of panels of a detector
SizeBits == 3       \* width of std::size_t

(***************************************************************************)
(* Rational arithmetic (the program's double)                              *)
(***************************************************************************)
Abs(x) == IF x < 0 THEN -x ELSE x

RECURSIVE Gcd(_, _)
Gcd(a, b) == IF b = 0 THEN a ELSE Gcd(b, a % b)

RNorm(n, d) ==
  LET s == IF d < 0 THEN -1 ELSE 1
      g == Gcd(Abs(n), Abs(d))
  IN  <<(s * n) \div g, (s * d) \div g>>

R(n) == <<n, 1>>
Half == <<1, 2>>
RAdd(a, b) == RNorm(a[1] * b[2] + b[1] * a[2], a[2] * b[2])
RSub(a, b) == RNorm(a[1] * b[2] - b[1] * a[2], a[2] * b[2])
RMul(a, b) == RNorm(a[1] * b[1], a[2] * b[2])
RDiv(a, b) == RNorm(a[1] * b[2], a[2] * b[1])
RLt(a, b) == a[1] * b[2] < b[1] * a[2]
RLe(a, b) == a[1] * b[2] <= b[1] * a[2]

(***************************************************************************)
(* af::c_grid<3> and the scitbx array reductions used by clean_3d          *)
(***************************************************************************)
GridSize(shape) == shape[1] * shape[2] * shape[3]
Voxels(shape) == 0..(GridSize(shape) - 1)

\* af::c_grid<3>::index_nd : flattened row-major index -> (i, j, k)
index_nd(shape, idx) ==
  <<idx \div (shape[2] * shape[3]), (idx \div shape[3]) % shape[2], idx % shape[3]>>

\* af::c_grid<3>::operator() : (i, j, k) -> flattened row-major index
c_grid_index(shape, ijk) ==
  (ijk[1] * shape[2] + ijk[2]) * shape[3] + ijk[3]

\* af::max_index : the first index holding the largest value
RECURSIVE max_index_from(_, _, _, _)
max_index_from(a, size, result, i) ==
  IF i >= size THEN result
  ELSE max_index_from(a, size, IF RLt(a[result], a[i]) THEN i ELSE result, i + 1)

max_index(a, size) == max_index_from(a, size, 0, 1)

\* af::max : the largest value
af_max(a, size) == a[max_index(a, size)]

(***************************************************************************)
(* State                                                                   *)
(***************************************************************************)
VARIABLES
  \* clean_3d
  c_pc,         \* position in clean_3d
  beam_shape,   \* dirty_beam.accessor()
  map_shape,    \* dirty_map.accessor()  (gridding_n_real)
  dirty_beam,   \* flattened dirty_beam
  dirty_map,    \* flattened dirty_map
  map_in,       \* the dirty_map as the caller passed it
  srcs,         \* the point sources the caller built the dirty_map from
  n_peaks, gamma,
  peaks, i_peak, max_db, shift, scale,
  ci, cj, ck,   \* the loop counters i, j, k of the subtraction
  corrupted,    \* memory outside dirty_map has been written
  \* sampling_volume_map
  s_pc,         \* position in sampling_volume_map
  data_shape,   \* data.accessor()  (gridding_n_real)
  data,         \* flattened data grid
  data_in,      \* the grid as the caller passed it
  angle_ranges, rl_grid_spacing, d_min, b_iso,
  si, sj, sk,   \* the loop counters i, j, k
  phi,          \* what the solver gave for the voxel processed last
  \* FlatPanelDetector, MultiFlatPanelDetector
  cmp,          \* the last evaluation of operator== and operator!=
  panel_list,   \* panel_list_
  isect,        \* the pairs of panels for which panels_intersect holds
  u_pc,         \* position in update()
  uj, ui,       \* the loop counters j, i of update()
  checked,      \* the index pairs update() has passed to panels_intersect
  errors        \* the number of errors update() has emitted

cleanVars == <<c_pc, beam_shape, map_shape, dirty_beam, dirty_map, map_in, srcs,
               n_peaks, gamma, peaks, i_peak, max_db, shift, scale,
               ci, cj, ck, corrupted>>

svmVars == <<s_pc, data_shape, data, data_in, angle_ranges, rl_grid_spacing,
             d_min, b_iso, si, sj, sk, phi>>

detVars == <<cmp, panel_list, isect, u_pc, uj, ui, checked, errors>>

vars == <<cleanVars, svmVars, detVars>>

(***************************************************************************)
(* The inputs of clean_3d                                                  *)
(***************************************************************************)
\* the smallest grid with equal extents greater than one
CubeShape == <<2, 2, 2>>

Shapes ==
  {s \in (1..MaxExtent) \X (1..MaxExtent) \X (1..MaxExtent) : GridSize(s) <= MaxCells}
    \cup {CubeShape}

\* the shapes of the beam passed with a map: the shape of the map, the same
\* extents in reverse order, and a shape of another size
BeamShapes(shape) ==
  {shape, <<shape[3], shape[2], shape[1]>>, <<shape[1], shape[2], shape[3] + 1>>}

\* a beam with its peak pk at flattened index p and a side lobe next to it
BeamOf(size, p, pk, lobe) ==
  [x \in 0..(size - 1) |->
     IF x = p THEN R(pk) ELSE IF x = (p + 1) % size THEN R(lobe) ELSE R(0)]

BeamProfiles == {<<1, 0>>, <<2, 0>>, <<2, 1>>}

Beams(size) ==
  {BeamOf(size, p, pl[1], pl[2]) : p \in {0, size - 1}, pl \in BeamProfiles}

\* the amplitudes of the point sources
Amplitudes == {1, 2}

\* sets of at most n point sources <<position, amplitude>> at distinct positions
RECURSIVE SrcSets(_, _)
SrcSets(size, n) ==
  IF n = 0 THEN {{}}
  ELSE LET prev == SrcSets(size, n - 1)
       IN  prev \cup
           UNION {{S \cup {<<p, a>>} :
                     p \in {q \in 0..(size - 1) : \A s \in S : s[1] # q},
                     a \in Amplitudes} : S \in prev}

\* the flattened index of (v - s) on the torus of the given shape
TorusShift(shape, v, s) ==
  LET a == index_nd(shape, v)
      b == index_nd(shape, s)
  IN  c_grid_index(shape, <<(a[1] - b[1]) % shape[1],
                            (a[2] - b[2]) % shape[2],
                            (a[3] - b[3]) % shape[3]>>)

\* the value at voxel v of the sources S convolved (with wraparound) with the beam
RECURSIVE SourceSum(_, _, _, _)
SourceSum(shape, beam, S, v) ==
  IF S = {} THEN R(0)
  ELSE LET s == CHOOSE x \in S : TRUE
       IN  RAdd(RMul(R(s[2]), beam[TorusShift(shape, v, s[1])]),
                SourceSum(shape, beam, S \ {s}, v))

\* base level plus every source convolved with the beam
MapOf(shape, beam, base, S) ==
  [v \in 0..(GridSize(shape) - 1) |-> RAdd(R(base), SourceSum(shape, beam, S, v))]

Gammas == {R(1), Half}

\* the state at the call of clean_3d
CleanStart ==
  /\ map_shape \in Shapes
  /\ beam_shape \in BeamShapes(map_shape)
  /\ IF GridSize(beam_shape) = GridSize(map_shape)
     THEN /\ dirty_beam \in Beams(GridSize(beam_shape))
          /\ \E base \in {0, -1} :
               /\ srcs \in (IF base = 0 THEN SrcSets(GridSize(map_shape), MaxSrc) ELSE {{}})
               /\ dirty_map = MapOf(map_shape, dirty_beam, base, srcs)
     ELSE /\ dirty_beam = BeamOf(GridSize(beam_shape), 0, 1, 0)
          /\ srcs = {}
          /\ dirty_map = [v \in 0..(GridSize(map_shape) - 1) |-> R(0)]
  /\ map_in = dirty_map
  /\ n_peaks \in 0..MaxPeaks
  /\ gamma \in Gammas
  /\ c_pc = "start"
  /\ peaks = <<>>
  /\ i_peak = 0
  /\ max_db = R(0)
  /\ shift = <<0, 0, 0>>
  /\ scale = R(0)
  /\ ci = 0 /\ cj = 0 /\ ck = 0
  /\ corrupted = FALSE

\* clean_3d is not called
CleanIdle ==
  /\ c_pc = "idle"
  /\ map_shape = <<1, 1, 1>> /\ beam_shape = <<1, 1, 1>>
  /\ dirty_beam = [x \in {0} |-> R(0)]
  /\ dirty_map = [x \in {0} |-> R(0)]
  /\ map_in = dirty_map
  /\ srcs = {}
  /\ n_peaks = 0 /\ gamma = R(1)
  /\ peaks = <<>> /\ i_peak = 0 /\ max_db = R(0)
  /\ shift = <<0, 0, 0>> /\ scale = R(0)
  /\ ci = 0 /\ cj = 0 /\ ck = 0
  /\ corrupted = FALSE

(***************************************************************************)
(* clean_3d                                                                *)
(***************************************************************************)
\* n0, n1, n2 of the subtraction loop: all three are read from
\* gridding_n_real[0]
clean_n0(shape) == shape[1]
clean_n1(shape) == shape[1]
clean_n2(shape) == shape[1]

\* the single conditional add / subtract that re-centres a beam coordinate
wrap_db(x, n) == IF x < 0 THEN x + n ELSE IF x >= n THEN x - n ELSE x

\* idx_dm : the index written in dirty_map for the loop counters (i, j, k)
idx_dm(shape, i, j, k) ==
  LET n0_n1 == clean_n0(shape) * clean_n1(shape)
  IN  i * n0_n1 + j * clean_n1(shape) + k

\* idx_db : the index read in dirty_beam for the loop counters (i, j, k)
idx_db(shape, sh, i, j, k) ==
  LET n0_n1 == clean_n0(shape) * clean_n1(shape)
      i_db == wrap_db(i - sh[1], clean_n0(shape))
      j_db == wrap_db(j - sh[2], clean_n1(shape))
      k_db == wrap_db(k - sh[3], clean_n2(shape))
  IN  i_db * n0_n1 + j_db * clean_n1(shape) + k_db

\* (i_db, j_db, k_db) : the re-centred beam coordinate for the loop counters (i, j, k)
wrapped_db(shape, sh, i, j, k) ==
  <<wrap_db(i - sh[1], clean_n0(shape)),
    wrap_db(j - sh[2], clean_n1(shape)),
    wrap_db(k - sh[3], clean_n2(shape))>>

\* a max_index that keeps the last of several equal maxima
RECURSIVE max_index_last_from(_, _, _, _)
max_index_last_from(a, size, result, i) ==
  IF i >= size THEN result
  ELSE max_index_last_from(a, size, IF RLe(a[result], a[i]) THEN i ELSE result, i + 1)

\* next_peak with the peak taken at the last of several equal maxima
next_peak_last(map, shape) ==
  index_nd(shape, max_index_last_from(map, GridSize(shape), 0, 1))

\* the coordinates recorded for the next peak
next_peak(map, shape) == index_nd(shape, max_index(map, GridSize(shape)))

\* scale = max_value / max_db * gamma
clean_scale(max_value, mdb, g) == RMul(RDiv(max_value, mdb), g)

InBounds(idx, size) == idx >= 0 /\ idx < size

\* a read past the end of an array yields whatever lies there
Garbage == {R(0), R(1)}

\* DIALS_ASSERT(dirty_map.size() == dirty_beam.size()); max_db = af::max(dirty_beam)
Clean_Enter ==
  /\ c_pc = "start"
  /\ IF GridSize(map_shape) = GridSize(beam_shape)
     THEN /\ max_db' = af_max(dirty_beam, GridSize(beam_shape))
          /\ c_pc' = "loop"
     ELSE /\ c_pc' = "assert_failed"
          /\ UNCHANGED max_db
  /\ UNCHANGED <<beam_shape, map_shape, dirty_beam, dirty_map, map_in, srcs,
                 n_peaks, gamma, peaks, i_peak, shift, scale, ci, cj, ck, corrupted>>
  /\ UNCHANGED <<svmVars, detVars>>

\* the head of one iteration: find the maximum, record it, compute the scale
Clean_FindPeak ==
  /\ c_pc = "loop"
  /\ i_peak < n_peaks
  /\ LET max_idx == max_index(dirty_map, GridSize(map_shape))
     IN  /\ shift' = next_peak(dirty_map, map_shape)
         /\ peaks' = Append(peaks, shift')
         /\ scale' = clean_scale(dirty_map[max_idx], max_db, gamma)
  /\ ci' = 0 /\ cj' = 0 /\ ck' = 0
  /\ c_pc' = "sub"
  /\ UNCHANGED <<beam_shape, map_shape, dirty_beam, dirty_map, map_in, srcs,
                 n_peaks, gamma, i_peak, max_db, corrupted>>
  /\ UNCHANGED <<svmVars, detVars>>

\* the increments of the three nested for loops, and of i_peak after the last voxel
Clean_Advance ==
  IF ck + 1 < map_shape[3]
  THEN ck' = ck + 1 /\ UNCHANGED <<ci, cj, i_peak, c_pc>>
  ELSE IF cj + 1 < map_shape[2]
  THEN ck' = 0 /\ cj' = cj + 1 /\ UNCHANGED <<ci, i_peak, c_pc>>
  ELSE IF ci + 1 < map_shape[1]
  THEN ck' = 0 /\ cj' = 0 /\ ci' = ci + 1 /\ UNCHANGED <<i_peak, c_pc>>
  ELSE ck' = 0 /\ cj' = 0 /\ ci' = 0 /\ i_peak' = i_peak + 1 /\ c_pc' = "loop"

\* dirty_map[idx_dm] -= dirty_beam[idx_db] * scale, both indices inside the arrays
Clean_SubtractVoxel ==
  /\ c_pc = "sub"
  /\ LET dm == idx_dm(map_shape, ci, cj, ck)
         db == idx_db(map_shape, shift, ci, cj, ck)
         size == GridSize(map_shape)
     IN  /\ InBounds(dm, size) /\ InBounds(db, size)
         /\ dirty_map' = [dirty_map EXCEPT ![dm] = RSub(@, RMul(dirty_beam[db], scale))]
  /\ Clean_Advance
  /\ UNCHANGED <<beam_shape, map_shape, dirty_beam, map_in, srcs,
                 n_peaks, gamma, peaks, max_db, shift, scale, corrupted>>
  /\ UNCHANGED <<svmVars, detVars>>

\* the same statement with an index outside its array: undefined behaviour.
\* The call crashes, or it goes on: a read outside dirty_beam yields garbage,
\* a write outside dirty_map lands in foreign memory.
Clean_SubtractVoxelUB ==
  /\ c_pc = "sub"
  /\ LET dm == idx_dm(map_shape, ci, cj, ck)
         db == idx_db(map_shape, shift, ci, cj, ck)
         size == GridSize(map_shape)
     IN  /\ ~(InBounds(dm, size) /\ InBounds(db, size))
         /\ \E crash \in BOOLEAN, g \in Garbage :
              IF crash
              THEN /\ c_pc' = "crashed"
                   /\ UNCHANGED <<dirty_map, corrupted, ci, cj, ck, i_peak>>
              ELSE /\ LET bv == IF InBounds(db, size) THEN dirty_beam[db] ELSE g
                      IN  IF InBounds(dm, size)
                          THEN /\ dirty_map' = [dirty_map EXCEPT
                                                  ![dm] = RSub(@, RMul(bv, scale))]
                               /\ UNCHANGED corrupted
                          ELSE /\ corrupted' = TRUE
                               /\ UNCHANGED dirty_map
                   /\ Clean_Advance
  /\ UNCHANGED <<beam_shape, map_shape, dirty_beam, map_in, srcs,
                 n_peaks, gamma, peaks, max_db, shift, scale>>
  /\ UNCHANGED <<svmVars, detVars>>

\* i_peak reached n_peaks: return peaks
Clean_Return ==
  /\ c_pc = "loop"
  /\ i_peak >= n_peaks
  /\ c_pc' = "done"
  /\ UNCHANGED <<beam_shape, map_shape, dirty_beam, dirty_map, map_in, srcs,
                 n_peaks, gamma, peaks, i_peak, max_db, shift, scale,
                 ci, cj, ck, corrupted>>
  /\ UNCHANGED <<svmVars, detVars>>

NextClean ==
  \/ Clean_Enter
  \/ Clean_FindPeak
  \/ Clean_SubtractVoxel
  \/ Clean_SubtractVoxelUB
  \/ Clean_Return

(***************************************************************************)
(* sampling_volume_map                                                     *)
(***************************************************************************)
\* A grid value is <<"lit", n, d>>, the number n/d, or <<"exp", n, d>>, the
\* number e^(n/d): std::exp is kept symbolic.
Lit(r) == <<"lit", r[1], r[2]>>
std_exp(r) == IF r = R(0) THEN Lit(R(1)) ELSE <<"exp", r[1], r[2]>>

SvmShapes ==
  {s \in (1..SvmMaxExtent) \X (1..SvmMaxExtent) \X (1..SvmMaxExtent) :
     GridSize(s) <= SvmMaxCells}

\* angles are counted in quarter turns
TwoPi == 4
mod_2pi(x) == x % TwoPi

\* dxtbx is_angle_in_range: containment in a range, aware of the wraparound
is_angle_in_range(range, angle) ==
  LET diff_angle_range0 == mod_2pi(angle - range[1])
      diff_angle_range1 == mod_2pi(angle - range[2])
  IN  \/ range[2] - range[1] >= TwoPi
      \/ diff_angle_range1 >= diff_angle_range0
      \/ diff_angle_range0 = 0

\* are_angles_in_range with the loop over the angles stopping after the first
first_angle_in_range(ranges, angles) ==
  \E j \in 1..Len(ranges) : is_angle_in_range(ranges[j], angles[1])

\* are_angles_in_range: either of the two angles lies in any of the ranges
are_angles_in_range(ranges, angles) ==
  \E i \in 1..2 : \E j \in 1..Len(ranges) : is_angle_in_range(ranges[j], angles[i])

\* RotationAngles::operator(): throws when the point never diffracts, else
\* gives the two rotation angles.  What it gives for which point depends on
\* s0 and m2: any outcome is possible.
SolverAngles == (0..MaxAngle) \X (0..MaxAngle)
NotSolved == [status |-> "none", angles |-> <<0, 0>>]
SolverError == [status |-> "error", angles |-> <<0, 0>>]
Solved(angles) == [status |-> "ok", angles |-> angles]

\* (double(i) - double(n / 2.0)) * rl_grid_spacing
rl_coord(i, n, spacing) == RMul(RSub(R(i), RDiv(R(n), R(2))), spacing)

\* reciprocal_length_sq of voxel (i, j, k)
reciprocal_length_sq(shape, i, j, k, spacing) ==
  LET i_rl == rl_coord(i, shape[1], spacing)
      j_rl == rl_coord(j, shape[2], spacing)
      k_rl == rl_coord(k, shape[3], spacing)
  IN  RAdd(RAdd(RMul(i_rl, i_rl), RMul(j_rl, j_rl)), RMul(k_rl, k_rl))

\* one_over_d_sq_min with d_min not squared
one_over_d_min(d) == RDiv(R(1), d)

\* one_over_d_sq_min = 1 / (d_min * d_min)
one_over_d_sq_min(d) == RDiv(R(1), RMul(d, d))

\* the resolution test that skips a voxel
beyond_resolution(r_sq, d) == RLt(one_over_d_sq_min(d), r_sq)

\* thermal_weight with b_iso itself as the factor of the exponent
thermal_weight_b_iso(b, r_sq) ==
  IF b # R(0) THEN std_exp(RDiv(RMul(RMul(R(-1), b), r_sq), R(4))) ELSE Lit(R(1))

\* T: exp(-200 * reciprocal_length_sq / 4) if b_iso != 0, else 1
thermal_weight(b, r_sq) ==
  IF b # R(0) THEN std_exp(RDiv(RMul(R(-200), r_sq), R(4))) ELSE Lit(R(1))

RangeValues == {<<0, 1>>, <<3, 7>>}

RECURSIVE SeqsUpTo(_, _)
SeqsUpTo(S, n) ==
  IF n = 0 THEN {<<>>}
  ELSE LET prev == SeqsUpTo(S, n - 1)
       IN  prev \cup {Append(q, x) : q \in {p \in prev : Len(p) = n - 1}, x \in S}

\* the state at the call of sampling_volume_map
SvmStart ==
  /\ data_shape \in SvmShapes
  /\ data \in {[v \in Voxels(data_shape) |-> Lit(R(0))],
               [v \in Voxels(data_shape) |-> Lit(R(v + 2))]}
  /\ data_in = data
  /\ angle_ranges \in SeqsUpTo(RangeValues, MaxRanges)
  /\ rl_grid_spacing \in {R(1), R(2)}
  /\ d_min \in {Half, R(1), R(2)}
  /\ b_iso \in {R(0), R(1), R(2)}
  /\ s_pc = "loop"
  /\ si = 0 /\ sj = 0 /\ sk = 0
  /\ phi = NotSolved

\* sampling_volume_map is not called
SvmIdle ==
  /\ s_pc = "idle"
  /\ data_shape = <<1, 1, 1>>
  /\ data = [v \in {0} |-> Lit(R(0))]
  /\ data_in = data
  /\ angle_ranges = <<>>
  /\ rl_grid_spacing = R(1) /\ d_min = R(1) /\ b_iso = R(0)
  /\ si = 0 /\ sj = 0 /\ sk = 0
  /\ phi = NotSolved

\* the increments of the three nested for loops; the function returns after
\* the last voxel
Svm_Advance ==
  IF sk + 1 < data_shape[3]
  THEN sk' = sk + 1 /\ UNCHANGED <<si, sj, s_pc>>
  ELSE IF sj + 1 < data_shape[2]
  THEN sk' = 0 /\ sj' = sj + 1 /\ UNCHANGED <<si, s_pc>>
  ELSE IF si + 1 < data_shape[1]
  THEN sk' = 0 /\ sj' = 0 /\ si' = si + 1 /\ UNCHANGED s_pc
  ELSE s_pc' = "done" /\ UNCHANGED <<si, sj, sk>>

\* the voxel lies beyond the resolution limit: continue
Svm_BeyondResolution ==
  /\ s_pc = "loop"
  /\ beyond_resolution(reciprocal_length_sq(data_shape, si, sj, sk, rl_grid_spacing), d_min)
  /\ phi' = NotSolved
  /\ Svm_Advance
  /\ UNCHANGED <<data_shape, data, data_in, angle_ranges, rl_grid_spacing, d_min, b_iso>>
  /\ UNCHANGED <<cleanVars, detVars>>

\* the solver throws: catch, continue
Svm_NoSolution ==
  /\ s_pc = "loop"
  /\ ~beyond_resolution(reciprocal_length_sq(data_shape, si, sj, sk, rl_grid_spacing), d_min)
  /\ phi' = SolverError
  /\ Svm_Advance
  /\ UNCHANGED <<data_shape, data, data_in, angle_ranges, rl_grid_spacing, d_min, b_iso>>
  /\ UNCHANGED <<cleanVars, detVars>>

\* the solver gives two angles: write the voxel if they are in range
Svm_Solved ==
  /\ s_pc = "loop"
  /\ LET r_sq == reciprocal_length_sq(data_shape, si, sj, sk, rl_grid_spacing)
     IN  /\ ~beyond_resolution(r_sq, d_min)
         /\ \E angles \in SolverAngles :
              /\ phi' = Solved(angles)
              /\ IF are_angles_in_range(angle_ranges, angles)
                 THEN data' = [data EXCEPT ![c_grid_index(data_shape, <<si, sj, sk>>)] =
                                             thermal_weight(b_iso, r_sq)]
                 ELSE UNCHANGED data
  /\ Svm_Advance
  /\ UNCHANGED <<data_shape, data_in, angle_ranges, rl_grid_spacing, d_min, b_iso>>
  /\ UNCHANGED <<cleanVars, detVars>>

NextSvm ==
  \/ Svm_BeyondResolution
  \/ Svm_NoSolution
  \/ Svm_Solved

(***************************************************************************)
(* FlatPanelDetector                                                       *)
(***************************************************************************)
Dot(a, b) == a[1] * b[1] + a[2] * b[2] + a[3] * b[3]

\* vec3::angle, in quarter turns, for vectors that lie along the axes
angle(a, b) == IF Dot(a, b) > 0 THEN 0 ELSE IF Dot(a, b) = 0 THEN 1 ELSE 2

\* the conversion of a double to bool
to_bool(x) == x # 0

\* FlatPanelDetector::operator==
panel_eq(a, b) ==
  LET d_fast == angle(a.fast_axis, b.fast_axis)
      d_slow == angle(a.slow_axis, b.slow_axis)
      d_origin == angle(a.origin, b.origin)
      d_dist == Abs(a.distance - b.distance)
      d_size_slow == Abs(a.image_size[1] - b.image_size[1])
      d_size_fast == Abs(a.image_size[2] - b.image_size[2])
  IN  /\ to_bool(d_fast) /\ to_bool(d_slow) /\ to_bool(d_origin)
      /\ to_bool(d_dist) /\ to_bool(d_size_slow) /\ to_bool(d_size_fast)

\* FlatPanelDetector::operator!=
panel_ne(a, b) == ~panel_eq(a, b)

Panel(f, s, o, d, n) ==
  [fast_axis |-> f, slow_axis |-> s, origin |-> o, distance |-> d, image_size |-> n]

\* the panels that are compared
PanelValues ==
  {Panel(f, s, o, d, n) :
     f \in {<<1, 0, 0>>, <<0, 1, 0>>},
     s \in {<<0, 1, 0>>, <<-1, 0, 0>>},
     o \in {<<0, 0, 1>>, <<0, 0, 2>>, <<0, 1, 0>>},
     d \in {1, 2},
     n \in {<<2, 2>>, <<3, 2>>, <<3, 3>>}}

\* no comparison has been made
PanelStart == cmp = <<>>

\* one evaluation of a == b and of a != b
Panel_Compare ==
  /\ cmp = <<>>
  /\ \E a \in PanelValues, b \in PanelValues :
       cmp' = <<[lhs |-> a, rhs |-> b, eq |-> panel_eq(a, b), ne |-> panel_ne(a, b)]>>
  /\ UNCHANGED <<panel_list, isect, u_pc, uj, ui, checked, errors>>
  /\ UNCHANGED <<cleanVars, svmVars>>

NextPanel == Panel_Compare

(***************************************************************************)
(* MultiFlatPanelDetector                                                  *)
(***************************************************************************)
\* std::size_t arithmetic
SIZE_MAX_P1 == 2 ^ SizeBits
size_t(x) == x % SIZE_MAX_P1

\* the panels a detector is built from
DetectorPanels ==
  {Panel(<<1, 0, 0>>, <<0, 1, 0>>, <<0, 0, 1>>, 1, <<2, 2>>),
   Panel(<<1, 0, 0>>, <<0, 1, 0>>, <<0, 0, 1>>, 2, <<2, 2>>),
   Panel(<<0, 1, 0>>, <<-1, 0, 0>>, <<0, 1, 0>>, 2, <<3, 3>>)}

\* panels_intersect(a, b)
panels_intersect(a, b) == {a, b} \in isect

\* the detector after construction; panels_intersect is any symmetric relation
DetStart ==
  /\ panel_list = <<>>
  /\ isect \in SUBSET {{a, b} : a \in DetectorPanels, b \in DetectorPanels}
  /\ u_pc = "idle"
  /\ uj = 0 /\ ui = 0
  /\ checked = <<>>
  /\ errors = 0

\* no detector is used
DetIdle ==
  /\ panel_list = <<>>
  /\ isect = {}
  /\ u_pc = "unused"
  /\ uj = 0 /\ ui = 0
  /\ checked = <<>>
  /\ errors = 0

\* scitbx::af::shared: push_back(x), erase(pos) and erase(first, last), with
\* positions counted from begin()
af_push_back(list, x) == Append(list, x)
af_erase(list, pos) == SubSeq(list, 1, pos) \o SubSeq(list, pos + 2, Len(list))
af_erase_range(list, first, last) ==
  SubSeq(list, 1, first) \o SubSeq(list, last + 1, Len(list))

\* num_panels()
num_panels == Len(panel_list)

\* operator[](index)
panel_at(index) == panel_list[index + 1]

\* add_panel(panel)
add_panel(panel) ==
  /\ u_pc = "idle"
  /\ Len(panel_list) < MaxPanels
  /\ panel_list' = af_push_back(panel_list, panel)
  /\ UNCHANGED <<cmp, isect, u_pc, uj, ui, checked, errors>>
  /\ UNCHANGED <<cleanVars, svmVars>>

\* remove_panels()
remove_panels ==
  /\ u_pc = "idle"
  /\ panel_list' = af_erase_range(panel_list, 0, Len(panel_list))
  /\ UNCHANGED <<cmp, isect, u_pc, uj, ui, checked, errors>>
  /\ UNCHANGED <<cleanVars, svmVars>>

\* remove_panel with the last panel erased whatever i is
remove_panel_last(i) ==
  /\ u_pc = "idle"
  /\ i < Len(panel_list)
  /\ panel_list' = af_erase(panel_list, Len(panel_list) - 1)
  /\ UNCHANGED <<cmp, isect, u_pc, uj, ui, checked, errors>>
  /\ UNCHANGED <<cleanVars, svmVars>>

\* remove_panel(i), for i < num_panels()
remove_panel(i) ==
  /\ u_pc = "idle"
  /\ i < Len(panel_list)
  /\ panel_list' = af_erase(panel_list, i)
  /\ UNCHANGED <<cmp, isect, u_pc, uj, ui, checked, errors>>
  /\ UNCHANGED <<cleanVars, svmVars>>

\* the bound of the outer loop of update(): panel_list_.size() - 1, in size_t
update_outer_bound(n) == size_t(n - 1)

\* update_inner_first with the inner loop starting one panel too far
update_inner_skip(j) == size_t(j + 2)

\* the first i of the inner loop of update()
update_inner_first(j) == size_t(j + 1)

\* update() is called: j = 0
Update_Call ==
  /\ u_pc = "idle"
  /\ u_pc' = "outer"
  /\ uj' = 0 /\ ui' = 0
  /\ checked' = <<>>
  /\ errors' = 0
  /\ UNCHANGED <<cmp, panel_list, isect>>
  /\ UNCHANGED <<cleanVars, svmVars>>

\* the test of the outer loop: j < panel_list_.size() - 1
Update_Outer ==
  /\ u_pc = "outer"
  /\ IF uj < update_outer_bound(Len(panel_list))
     THEN ui' = update_inner_first(uj) /\ u_pc' = "inner"
     ELSE u_pc' = "done" /\ UNCHANGED ui
  /\ UNCHANGED <<cmp, panel_list, isect, uj, checked, errors>>
  /\ UNCHANGED <<cleanVars, svmVars>>

\* the inner loop is over: ++j
Update_InnerEnd ==
  /\ u_pc = "inner"
  /\ ~(ui < Len(panel_list))
  /\ uj' = size_t(uj + 1)
  /\ u_pc' = "outer"
  /\ UNCHANGED <<cmp, panel_list, isect, ui, checked, errors>>
  /\ UNCHANGED <<cleanVars, svmVars>>

\* one pass of the inner loop: panels j and i do not intersect
Update_Check ==
  /\ u_pc = "inner"
  /\ ui < Len(panel_list)
  /\ ~panels_intersect(panel_list[uj + 1], panel_list[ui + 1])
  /\ checked' = Append(checked, <<uj, ui>>)
  /\ ui' = size_t(ui + 1)
  /\ UNCHANGED <<cmp, panel_list, isect, u_pc, uj, errors>>
  /\ UNCHANGED <<cleanVars, svmVars>>

\* one pass of the inner loop: panels j and i intersect, DIALS_ERROR.  The
\* error is emitted; update() is left with it, or goes on to the next pair.
Update_Error ==
  /\ u_pc = "inner"
  /\ ui < Len(panel_list)
  /\ panels_intersect(panel_list[uj + 1], panel_list[ui + 1])
  /\ checked' = Append(checked, <<uj, ui>>)
  /\ errors' = errors + 1
  /\ \E thrown \in BOOLEAN :
       IF thrown THEN u_pc' = "thrown" /\ UNCHANGED ui
                 ELSE ui' = size_t(ui + 1) /\ UNCHANGED u_pc
  /\ UNCHANGED <<cmp, panel_list, isect, uj>>
  /\ UNCHANGED <<cleanVars, svmVars>>

\* update() has returned or thrown: the caller goes on
Update_Leave ==
  /\ u_pc \in {"done", "thrown"}
  /\ u_pc' = "idle"
  /\ UNCHANGED <<cmp, panel_list, isect, uj, ui, checked, errors>>
  /\ UNCHANGED <<cleanVars, svmVars>>

NextDet ==
  \/ \E p \in DetectorPanels : add_panel(p)
  \/ \E i \in 0..(MaxPanels - 1) : remove_panel(i)
  \/ remove_panels
  \/ Update_Call
  \/ Update_Outer
  \/ Update_InnerEnd
  \/ Update_Check
  \/ Update_Error
  \/ Update_Leave

(***************************************************************************)
(* Specifications                                                          *)
(***************************************************************************)
InitClean == CleanStart /\ SvmIdle /\ PanelStart /\ DetIdle
InitSvm == CleanIdle /\ SvmStart /\ PanelStart /\ DetIdle
InitPanel == CleanIdle /\ SvmIdle /\ PanelStart /\ DetIdle
InitDet == CleanIdle /\ SvmIdle /\ PanelStart /\ DetStart

SpecClean == InitClean /\ [][NextClean]_vars
SpecSvm == InitSvm /\ [][NextSvm]_vars
SpecPanel == InitPanel /\ [][NextPanel]_vars
SpecDet == InitDet /\ [][NextDet]_vars

(***************************************************************************)
(* Properties of clean_3d                                                  *)
(***************************************************************************)
\* C1: in every iteration, each voxel (i,j,k) of the map is decreased by
\* scale * dirty_beam[(i - shift0) mod n0, (j - shift1) mod n1, (k - shift2) mod n2],
\* each modulus being the extent of its own axis and shift the recorded peak,
\* with scale = (map value at the peak / max_db) * gamma; the step for (i,j,k)
\* touches no other voxel.  Stated for grids of any shape, cubic or not.
C1_SubtractsWrappedBeam ==
  [][/\ (c_pc = "loop" /\ c_pc' = "sub") =>
          LET p == c_grid_index(map_shape, peaks'[Len(peaks')])
          IN  /\ shift' = peaks'[Len(peaks')]
              /\ scale' = RMul(RDiv(dirty_map[p], max_db), gamma)
     /\ (c_pc = "sub" /\ beam_shape = map_shape) =>
          LET v == c_grid_index(map_shape, <<ci, cj, ck>>)
              b == TorusShift(map_shape, v, c_grid_index(map_shape, shift))
          IN  dirty_map' =
                [dirty_map EXCEPT ![v] = RSub(@, RMul(scale, dirty_beam[b]))]
    ]_vars

\* C2: for a map and a beam of equal size, the call ends only by returning,
\* after exactly n_peaks iterations and with exactly n_peaks peaks; with
\* n_peaks = 0 the sequence is empty and the map is unchanged.
C2_ReturnsExactlyNPeaks ==
  (GridSize(beam_shape) = GridSize(map_shape) /\ c_pc \notin {"start", "loop", "sub"}) =>
     /\ c_pc = "done"
     /\ i_peak = n_peaks
     /\ Len(peaks) = n_peaks
     /\ (n_peaks = 0 => dirty_map = map_in)

\* the recorded peak is the first voxel holding the largest value of the map
IsFirstMaximum(map, shape, p) ==
  /\ p \in (0..(shape[1] - 1)) \X (0..(shape[2] - 1)) \X (0..(shape[3] - 1))
  /\ LET v == c_grid_index(shape, p)
     IN  /\ \A u \in Voxels(shape) : RLe(map[u], map[v])
         /\ \A u \in Voxels(shape) : u < v => RLt(map[u], map[v])

\* C3: the k-th recorded peak is the grid coordinate of the global maximum of
\* dirty_map as it stands at the start of iteration k (the lowest flattened
\* index among equal maxima), and peaks are only ever appended.
C3_AtIterationStart ==
  (c_pc = "sub" /\ ci = 0 /\ cj = 0 /\ ck = 0) =>
     /\ Len(peaks) = i_peak + 1
     /\ IsFirstMaximum(dirty_map, map_shape, peaks[Len(peaks)])

C3_PeakIsFirstMaximum ==
  /\ []C3_AtIterationStart
  /\ [][/\ Len(peaks') >= Len(peaks)
        /\ SubSeq(peaks', 1, Len(peaks)) = peaks]_vars

\* C3 witness: a second or later iteration has recorded the lowest of several
\* voxels that hold the maximum of a map that is not constant
C3_Witness ==
  /\ c_pc = "sub" /\ ci = 0 /\ cj = 0 /\ ck = 0
  /\ i_peak >= 1
  /\ dirty_map # map_in
  /\ LET v == c_grid_index(map_shape, peaks[Len(peaks)])
     IN  /\ \E u \in Voxels(map_shape) : u > v /\ dirty_map[u] = dirty_map[v]
         /\ \E u \in Voxels(map_shape) : RLt(dirty_map[u], dirty_map[v])

\* C4: a beam and a map of different shapes make the call fail before any
\* iteration: no peak is recorded and the map is not modified.
C4_ShapeMismatchIsFatal ==
  beam_shape # map_shape =>
     /\ c_pc \in {"start", "assert_failed"}
     /\ peaks = <<>>
     /\ dirty_map = map_in

\* the voxels covered by the beam re-centred on flattened position pos
Footprint(shape, beam, pos) ==
  {v \in Voxels(shape) : beam[TorusShift(shape, v, pos)] # R(0)}

\* the premises of C5: beam with its unique maximum at (0,0,0), map made of
\* well separated point sources of distinct amplitudes convolved with it
C5_Premises ==
  /\ beam_shape = map_shape
  /\ \A x \in Voxels(beam_shape) : x # 0 => RLt(dirty_beam[x], dirty_beam[0])
  /\ map_in = MapOf(map_shape, dirty_beam, 0, srcs)
  /\ \A s, t \in srcs :
       s # t => /\ s[2] # t[2]
                /\ Footprint(map_shape, dirty_beam, s[1])
                     \cap Footprint(map_shape, dirty_beam, t[1]) = {}
  /\ n_peaks = Cardinality(srcs)
  /\ gamma = R(1)

\* C5: under these premises the call returns the source coordinates in
\* strictly decreasing order of amplitude and leaves the map at zero at each.
C5_RecoversSources ==
  (c_pc = "done" /\ C5_Premises) =>
     /\ Len(peaks) = Cardinality(srcs)
     /\ \A k \in 1..Len(peaks) :
          /\ \E s \in srcs :
               /\ peaks[k] = index_nd(map_shape, s[1])
               /\ Cardinality({t \in srcs : t[2] > s[2]}) = k - 1
          /\ dirty_map[c_grid_index(map_shape, peaks[k])] = R(0)

\* the accesses of dirty_map[idx_dm] -= dirty_beam[idx_db] * scale at the loop
\* counters (ci, cj, ck) are inside the arrays and at the row-major offsets
AccessInBounds ==
  LET size == GridSize(map_shape)
      w == wrapped_db(map_shape, shift, ci, cj, ck)
      dm == idx_dm(map_shape, ci, cj, ck)
      db == idx_db(map_shape, shift, ci, cj, ck)
  IN  /\ \A a \in 1..3 : w[a] >= 0 /\ w[a] < map_shape[a]
      /\ InBounds(dm, size) /\ InBounds(db, size)
      /\ dm = c_grid_index(map_shape, <<ci, cj, ck>>)
      /\ db = c_grid_index(map_shape, w)

\* C11: in every iteration, for a grid of any shape with beam and map of equal
\* size, each wrapped beam coordinate lies in [0, extent of its axis), and both
\* flattened indices of the subtraction lie in [0, n0*n1*n2) and are the
\* row-major offsets of (i,j,k) and of the wrapped beam coordinate: every
\* subtraction the loop performs reads and writes inside the arrays.
C11_AccessesInBounds ==
  [][(c_pc = "sub") => AccessInBounds]_vars

(***************************************************************************)
(* Properties of sampling_volume_map                                       *)
(***************************************************************************)
\* the squared reciprocal distance of voxel v from the grid centre:
\* ((i - n0/2)^2 + (j - n1/2)^2 + (k - n2/2)^2) * rl_grid_spacing^2
DistanceSq(v) ==
  LET c == index_nd(data_shape, v)
      off(x, n) == RSub(R(x), RDiv(R(n), R(2)))
      sq(x) == RMul(x, x)
  IN  RMul(RAdd(RAdd(sq(off(c[1], data_shape[1])), sq(off(c[2], data_shape[2]))),
                sq(off(c[3], data_shape[3]))),
           sq(rl_grid_spacing))

\* 1 / d_min^2
Cutoff == RDiv(R(1), RMul(d_min, d_min))

\* the call has processed at least one voxel, and Last is the latest one
Processed == s_pc = "done" \/ c_grid_index(data_shape, <<si, sj, sk>>) > 0
Last ==
  IF s_pc = "done" THEN GridSize(data_shape) - 1
  ELSE c_grid_index(data_shape, <<si, sj, sk>>) - 1

\* C6: a voxel whose squared reciprocal distance exceeds 1/d_min^2 keeps the
\* value it had before the call, whatever the solver and the angle ranges give.
C6_BeyondCutoffUntouched ==
  \A v \in Voxels(data_shape) : RLt(Cutoff, DistanceSq(v)) => data[v] = data_in[v]

\* C6 witness: the call is over, it left a voxel beyond the cutoff alone and
\* it wrote a voxel that lies exactly at the cutoff
C6_Witness ==
  /\ s_pc = "done"
  /\ \E v \in Voxels(data_shape) : RLt(Cutoff, DistanceSq(v))
  /\ \E v \in Voxels(data_shape) : DistanceSq(v) = Cutoff /\ data[v] # data_in[v]

\* C7: a voxel inside the cutoff is written if and only if the solver gave a
\* solution and one of its two angles lies in one of the angle ranges; when
\* it is not written the call goes on with the next voxel.
C7_WrittenIffInRange ==
  (Processed /\ RLe(DistanceSq(Last), Cutoff)) =>
     /\ data[Last] # data_in[Last] <=>
          /\ phi.status = "ok"
          /\ \E a \in {phi.angles[1], phi.angles[2]} :
               \E r \in 1..Len(angle_ranges) : is_angle_in_range(angle_ranges[r], a)
     /\ s_pc \in {"loop", "done"}
     /\ s_pc = "loop" => c_grid_index(data_shape, <<si, sj, sk>>) = Last + 1

\* C7 witness: the solver failed on a voxel inside the cutoff, the voxel was
\* left alone and the call went on to write a later voxel on its second angle
C7_Witness ==
  /\ Processed /\ Last >= 1
  /\ RLe(DistanceSq(Last), Cutoff)
  /\ data[Last] # data_in[Last]
  /\ phi.status = "ok"
  /\ \A r \in 1..Len(angle_ranges) : ~is_angle_in_range(angle_ranges[r], phi.angles[1])
  /\ \E v \in 0..(Last - 1) : RLe(DistanceSq(v), Cutoff) /\ data[v] = data_in[v]

\* C8: a written voxel holds exactly 1 when b_iso = 0 and exp(-200 r^2 / 4)
\* otherwise, r^2 being its squared reciprocal distance: the value depends on
\* r^2 and on whether b_iso is zero only.
C8_WrittenValue ==
  \A v \in Voxels(data_shape) :
     data[v] # data_in[v] =>
        data[v] = IF b_iso = R(0) THEN Lit(R(1))
                  ELSE std_exp(RDiv(RMul(R(-200), DistanceSq(v)), R(4)))

\* C8 witness: with b_iso = 2, a grid that was not zero holds a written
\* voxel away from the centre
C8_Witness ==
  /\ b_iso = R(2)
  /\ \E v \in Voxels(data_shape) :
       /\ data[v] # data_in[v]
       /\ data_in[v] # Lit(R(0))
       /\ DistanceSq(v) # R(0)

(***************************************************************************)
(* Properties of FlatPanelDetector                                         *)
(***************************************************************************)
\* the two panels have the same geometry: the same directions of the fast
\* axis, of the slow axis and of the origin, the same distance and image size
SameGeometry(a, b) ==
  /\ angle(a.fast_axis, b.fast_axis) = 0
  /\ angle(a.slow_axis, b.slow_axis) = 0
  /\ angle(a.origin, b.origin) = 0
  /\ a.distance = b.distance
  /\ a.image_size = b.image_size

\* C9: operator== holds exactly of two panels of the same geometry, so a panel
\* equals itself and its copies, and operator!= is the negation of operator==.
C9_EqualIffSameGeometry ==
  \A c \in {cmp[x] : x \in 1..Len(cmp)} :
     /\ c.eq <=> SameGeometry(c.lhs, c.rhs)
     /\ c.lhs = c.rhs => c.eq
     /\ c.ne <=> ~c.eq

(***************************************************************************)
(* Properties of MultiFlatPanelDetector::update                            *)
(***************************************************************************)
\* the index pairs j < i < num_panels()
Pairs(n) == {p \in (0..(n - 1)) \X (0..(n - 1)) : p[1] < p[2]}

CheckedSet == {checked[x] : x \in 1..Len(checked)}

SomePairIntersects ==
  \E p \in Pairs(Len(panel_list)) :
     {panel_list[p[1] + 1], panel_list[p[2] + 1]} \in isect

\* C10, at any moment of update(): only pairs j < i < num_panels() are
\* checked, none twice; when update() ends an error has been emitted if and
\* only if some pair intersects; when it returns every pair has been checked;
\* with fewer than two panels nothing is read and no error is emitted.
C10_UpdateChecksPairs ==
  u_pc \in {"outer", "inner", "done", "thrown"} =>
     /\ CheckedSet \subseteq Pairs(Len(panel_list))
     /\ Cardinality(CheckedSet) = Len(checked)
     /\ u_pc \in {"done", "thrown"} => (errors > 0 <=> SomePairIntersects)
     /\ u_pc = "done" => CheckedSet = Pairs(Len(panel_list))
     /\ Len(panel_list) <= 1 => (checked = <<>> /\ errors = 0 /\ u_pc # "thrown")

C10_WitnessEmpty ==
  /\ u_pc = "done"
  /\ Len(panel_list) = 0

(***************************************************************************)
(* Properties of the panel list of MultiFlatPanelDetector                  *)
(***************************************************************************)
\* C12: add_panel(p) raises num_panels() by one, keeps every panel at its index
\* and puts p last; remove_panel(i), i < num_panels(), lowers num_panels() by
\* one, keeps the panels below i and moves each later panel down by one;
\* remove_panels leaves num_panels() = 0; nothing else changes the list.  So
\* after any sequence of these calls num_panels() is the number of panels added
\* and not yet removed and operator[] returns them in insertion order.
C12_PanelListOrder ==
  [][/\ \A p \in DetectorPanels :
          add_panel(p) =>
             /\ num_panels' = num_panels + 1
             /\ \A x \in 0..(num_panels - 1) : panel_at(x)' = panel_at(x)
             /\ panel_at(num_panels - 1)' = p
     /\ \A i \in 0..(MaxPanels - 1) :
          remove_panel(i) =>
             /\ num_panels' = num_panels - 1
             /\ \A x \in 0..(i - 1) : panel_at(x)' = panel_at(x)
             /\ \A x \in i..(num_panels - 2) : panel_at(x)' = panel_at(x + 1)
     /\ remove_panels => num_panels' = 0
     /\ (panel_list' # panel_list) =>
          \/ \E p \in DetectorPanels : add_panel(p)
          \/ \E i \in 0..(MaxPanels - 1) : remove_panel(i)
          \/ remove_panels]_vars

\* C12 witness: update() checked the three pairs of a detector of three
\* panels, and the detector now holds two different panels: a panel has been
\* removed since
C12_Witness ==
  /\ u_pc = "idle"
  /\ Len(checked) = 3
  /\ num_panels = 2
  /\ panel_at(0) # panel_at(1)

====
